---- MODULE Spec2Model ----
(***************************************************************************)
(* Model of UserInputWin32/src/main.cpp: a window (MainWindow) that draws  *)
(* one ellipse by mouse drag through a Direct2D render target and brush.   *)
(*                                                                         *)
(* Pointers are modelled by whether they are non-NULL.  Floats are         *)
(* modelled in fixed point: a coordinate c is stored as c * Unit, which is *)
(* exact for every value the bounded inputs produce (pixel / scale with    *)
(* scale in {1, 2}, then one halving).                                     *)
(***************************************************************************)
EXTENDS Integers, Sequences, FiniteSets

\* ---------------------------------------------------------------- bounds
\* pixel coordinates delivered by the host lie in 0..MaxPixel
MaxPixel == 1

\* ------------------------------------------------------------- constants
\* fixed-point denominator of a float coordinate (quarter DIPs)
Unit == 4
\* DPIScale::Initialize divides the window DPI by 96.0f
BaseDpi == 96
\* the window DPIs the host may report (100% and 200% scaling)
DPIs == {BaseDpi, 2 * BaseDpi}
\* bit of the primary button in the key-state flags of a mouse message
MK_LBUTTON == 1
\* bit of the secondary button
MK_RBUTTON == 2
\* key-state flags a mouse message may carry
Flags == {0, MK_LBUTTON, MK_RBUTTON}

Pixels == 0..MaxPixel

\* HRESULTs the graphics backend may return
S_OK == "S_OK"
E_FAIL == "E_FAIL"
D2DERR_RECREATE_TARGET == "D2DERR_RECREATE_TARGET"
NoHr == "none"
HResults == {S_OK, E_FAIL, D2DERR_RECREATE_TARGET}

SUCCEEDED(hr) == hr = S_OK
FAILED(hr) == ~SUCCEEDED(hr)

VARIABLES
    phase,          \* lifetime of the window: constructed, createFailed, created, running
                    \* (shown), aborted, destroyed, exited, crashed
    pFactory,       \* MainWindow::pFactory is non-NULL
    pRenderTarget,  \* MainWindow::pRenderTarget is non-NULL
    pBrush,         \* MainWindow::pBrush is non-NULL
    ellipse,        \* MainWindow::ellipse (point.x, point.y, radiusX, radiusY), in Unit-ths
    ptMouse,        \* MainWindow::ptMouse, in Unit-ths
    scaleX,         \* DPIScale::scaleX
    scaleY,         \* DPIScale::scaleY
    captured,       \* the window holds the mouse capture (SetCapture / ReleaseCapture)
    dirty,          \* the window has a pending update region (InvalidateRect / BeginPaint)
    calls,          \* host and backend calls issued by the last HandleMessage run, in order
    drawn,          \* the ellipses passed to FillEllipse by the last HandleMessage run
    last,           \* the last message handled and the backend results it consumed
    lost,           \* some earlier OnPaint discarded the resources after a failed EndDraw
    ret             \* what the last HandleMessage run returned

vars == <<phase, pFactory, pRenderTarget, pBrush, ellipse, ptMouse, scaleX, scaleY,
          captured, dirty, calls, drawn, last, lost, ret>>

\* a call, with the state of the two device-dependent pointers when it is issued
Call(fn, rt, br) == [fn |-> fn, rt |-> rt, brush |-> br]

Point2F(x, y) == [x |-> x, y |-> y]
Ellipse(pt, rx, ry) == [x |-> pt.x, y |-> pt.y, radiusX |-> rx, radiusY |-> ry]

Msg(m, x, y, flags, hrRT, hrBrush, hrEnd) ==
    [msg |-> m, x |-> x, y |-> y, flags |-> flags,
     hrRT |-> hrRT, hrBrush |-> hrBrush, hrEnd |-> hrEnd]

\* DPIScale::PixelsToDips: each pixel coordinate divided by the scale factor
PixelsToDips(x, y) == Point2F((x * Unit) \div scaleX, (y * Unit) \div scaleY)

\* MainWindow::MainWindow and the static initialisers of DPIScale
Init ==
    /\ phase = "constructed"
    /\ pFactory = FALSE
    /\ pRenderTarget = FALSE
    /\ pBrush = FALSE
    /\ ellipse = Ellipse(Point2F(0, 0), 0, 0)
    /\ ptMouse = Point2F(0, 0)
    /\ scaleX = 1
    /\ scaleY = 1
    /\ captured = FALSE
    /\ dirty = FALSE
    /\ calls = <<>>
    /\ drawn = <<>>
    /\ last = Msg("none", 0, 0, 0, NoHr, NoHr, NoHr)
    /\ lost = FALSE
    /\ ret = "none"

\* SafeRelease without the NULL test
SafeRelease_NoTest(p, name, rt, br) ==
    [p |-> FALSE, calls |-> <<Call(name, rt, br)>>]

\* SafeRelease: Release and NULL a pointer that is set, leave a NULL pointer alone
SafeRelease(p, name, rt, br) ==
    [p |-> FALSE, calls |-> IF p THEN <<Call(name, rt, br)>> ELSE <<>>]

\* CreateGraphicsResources that forgets to create the brush
CreateGraphicsResources_NoBrush(rt, br, hrRT, hrBrush) ==
    IF ~rt
    THEN LET c1 == <<Call("GetClientRect", rt, br), Call("CreateHwndRenderTarget", rt, br)>>
         IN [hr |-> hrRT, rt |-> SUCCEEDED(hrRT), br |-> br,
             hrRT |-> hrRT, hrBrush |-> NoHr, calls |-> c1]
    ELSE [hr |-> S_OK, rt |-> rt, br |-> br, hrRT |-> NoHr, hrBrush |-> NoHr, calls |-> <<>>]

\* MainWindow::CreateGraphicsResources, from pointers rt and br, the backend
\* answering hrRT to CreateHwndRenderTarget and hrBrush to CreateSolidColorBrush
CreateGraphicsResources(rt, br, hrRT, hrBrush) ==
    IF ~rt
    THEN LET c1 == <<Call("GetClientRect", rt, br), Call("CreateHwndRenderTarget", rt, br)>>
         IN IF SUCCEEDED(hrRT)
            THEN [hr |-> hrBrush, rt |-> TRUE, br |-> SUCCEEDED(hrBrush),
                  hrRT |-> hrRT, hrBrush |-> hrBrush,
                  calls |-> c1 \o <<Call("CreateSolidColorBrush", TRUE, br)>>]
            ELSE [hr |-> hrRT, rt |-> FALSE, br |-> br,
                  hrRT |-> hrRT, hrBrush |-> NoHr, calls |-> c1]
    ELSE [hr |-> S_OK, rt |-> rt, br |-> br, hrRT |-> NoHr, hrBrush |-> NoHr, calls |-> <<>>]

\* DiscardGraphicsResources that forgets the brush
DiscardGraphicsResources_KeepBrush(rt, br) ==
    LET r1 == SafeRelease(rt, "Release(pRenderTarget)", rt, br)
    IN [rt |-> r1.p, br |-> br, calls |-> r1.calls]

\* MainWindow::DiscardGraphicsResources
DiscardGraphicsResources(rt, br) ==
    LET r1 == SafeRelease(rt, "Release(pRenderTarget)", rt, br)
        r2 == SafeRelease(br, "Release(pBrush)", r1.p, br)
    IN [rt |-> r1.p, br |-> r2.p, calls |-> r1.calls \o r2.calls]

\* OnLButtonDown that resets the radii to 0 as the constructor does
OnLButtonDown_ZeroRadius(pixelX, pixelY) ==
    LET pt == PixelsToDips(pixelX, pixelY)
    IN [captured |-> TRUE,
        ptMouse |-> pt,
        ellipse |-> Ellipse(pt, 0, 0),
        calls |-> <<Call("SetCapture", pRenderTarget, pBrush),
                    Call("InvalidateRect", pRenderTarget, pBrush)>>]

\* MainWindow::OnLButtonDown
OnLButtonDown(pixelX, pixelY) ==
    LET pt == PixelsToDips(pixelX, pixelY)
    IN [captured |-> TRUE,
        ptMouse |-> pt,
        ellipse |-> Ellipse(pt, 1 * Unit, 1 * Unit),
        calls |-> <<Call("SetCapture", pRenderTarget, pBrush),
                    Call("InvalidateRect", pRenderTarget, pBrush)>>]

\* OnMouseMove that tests the flags for any button
OnMouseMove_AnyButton(pixelX, pixelY, flags) ==
    IF flags # 0
    THEN LET dips == PixelsToDips(pixelX, pixelY)
             width == (dips.x - ptMouse.x) \div 2
             height == (dips.y - ptMouse.y) \div 2
             x1 == ptMouse.x + width
             y1 == ptMouse.y + height
         IN [ellipse |-> Ellipse(Point2F(x1, y1), width, height),
             calls |-> <<Call("InvalidateRect", pRenderTarget, pBrush)>>]
    ELSE [ellipse |-> ellipse, calls |-> <<>>]

\* OnMouseMove that forgets the InvalidateRect
OnMouseMove_NoInvalidate(pixelX, pixelY, flags) ==
    IF (flags \div MK_LBUTTON) % 2 = 1
    THEN LET dips == PixelsToDips(pixelX, pixelY)
             width == (dips.x - ptMouse.x) \div 2
             height == (dips.y - ptMouse.y) \div 2
             x1 == ptMouse.x + width
             y1 == ptMouse.y + height
         IN [ellipse |-> Ellipse(Point2F(x1, y1), width, height),
             calls |-> <<>>]
    ELSE [ellipse |-> ellipse, calls |-> <<>>]

\* OnMouseMove that centres the ellipse on the anchor
OnMouseMove_CentreOnAnchor(pixelX, pixelY, flags) ==
    IF (flags \div MK_LBUTTON) % 2 = 1
    THEN LET dips == PixelsToDips(pixelX, pixelY)
             width == (dips.x - ptMouse.x) \div 2
             height == (dips.y - ptMouse.y) \div 2
         IN [ellipse |-> Ellipse(Point2F(ptMouse.x, ptMouse.y), width, height),
             calls |-> <<Call("InvalidateRect", pRenderTarget, pBrush)>>]
    ELSE [ellipse |-> ellipse, calls |-> <<>>]

\* MainWindow::OnMouseMove
OnMouseMove(pixelX, pixelY, flags) ==
    IF (flags \div MK_LBUTTON) % 2 = 1
    THEN LET dips == PixelsToDips(pixelX, pixelY)
             width == (dips.x - ptMouse.x) \div 2
             height == (dips.y - ptMouse.y) \div 2
             x1 == ptMouse.x + width
             y1 == ptMouse.y + height
         IN [ellipse |-> Ellipse(Point2F(x1, y1), width, height),
             calls |-> <<Call("InvalidateRect", pRenderTarget, pBrush)>>]
    ELSE [ellipse |-> ellipse, calls |-> <<>>]

\* OnLButtonUp that clears the anchor
OnLButtonUp_ClearAnchor ==
    [captured |-> FALSE, ellipse |-> ellipse, ptMouse |-> Point2F(0, 0),
     calls |-> <<Call("ReleaseCapture", pRenderTarget, pBrush)>>]

\* OnLButtonUp that clears the ellipse
OnLButtonUp_ClearShape ==
    [captured |-> FALSE, ellipse |-> Ellipse(Point2F(0, 0), 0, 0), ptMouse |-> ptMouse,
     calls |-> <<Call("ReleaseCapture", pRenderTarget, pBrush)>>]

\* MainWindow::OnLButtonUp
OnLButtonUp ==
    [captured |-> FALSE, ellipse |-> ellipse, ptMouse |-> ptMouse,
     calls |-> <<Call("ReleaseCapture", pRenderTarget, pBrush)>>]

\* case WM_CREATE that creates the factory into a local and never stores it
HandleMessage_WM_CREATE_LocalFactory ==
    /\ \E hrFactory \in {S_OK, E_FAIL}, dpi \in DPIs :
         /\ last' = Msg("WM_CREATE", 0, 0, 0, NoHr, NoHr, NoHr)
         /\ IF FAILED(hrFactory)
            THEN /\ phase' = "createFailed"
                 /\ ret' = "-1"
                 /\ calls' = <<Call("D2D1CreateFactory", pRenderTarget, pBrush)>>
                 /\ UNCHANGED <<pFactory, scaleX, scaleY>>
            ELSE /\ phase' = "created"
                 /\ ret' = "0"
                 /\ pFactory' = pFactory
                 /\ scaleX' = dpi \div BaseDpi
                 /\ scaleY' = dpi \div BaseDpi
                 /\ calls' = <<Call("D2D1CreateFactory", pRenderTarget, pBrush),
                               Call("GetDpiForWindow", pRenderTarget, pBrush)>>
    /\ drawn' = <<>>
    /\ UNCHANGED <<lost, pRenderTarget, pBrush, ellipse, ptMouse, captured, dirty>>

\* HandleMessage, case WM_CREATE
HandleMessage_WM_CREATE ==
    /\ \E hrFactory \in {S_OK, E_FAIL}, dpi \in DPIs :
         /\ last' = Msg("WM_CREATE", 0, 0, 0, NoHr, NoHr, NoHr)
         /\ IF FAILED(hrFactory)
            THEN /\ phase' = "createFailed"
                 /\ ret' = "-1"
                 /\ calls' = <<Call("D2D1CreateFactory", pRenderTarget, pBrush)>>
                 /\ UNCHANGED <<pFactory, scaleX, scaleY>>
            ELSE /\ phase' = "created"
                 /\ ret' = "0"
                 /\ pFactory' = TRUE
                 /\ scaleX' = dpi \div BaseDpi
                 /\ scaleY' = dpi \div BaseDpi
                 /\ calls' = <<Call("D2D1CreateFactory", pRenderTarget, pBrush),
                               Call("GetDpiForWindow", pRenderTarget, pBrush)>>
    /\ drawn' = <<>>
    /\ UNCHANGED <<lost, pRenderTarget, pBrush, ellipse, ptMouse, captured, dirty>>

\* HandleMessage, case WM_LBUTTONDOWN
HandleMessage_WM_LBUTTONDOWN ==
    /\ \E px \in Pixels, py \in Pixels :
         LET r == OnLButtonDown(px, py)
         IN /\ captured' = r.captured
            /\ ptMouse' = r.ptMouse
            /\ ellipse' = r.ellipse
            /\ calls' = r.calls
            /\ last' = Msg("WM_LBUTTONDOWN", px, py, MK_LBUTTON, NoHr, NoHr, NoHr)
    /\ dirty' = TRUE
    /\ drawn' = <<>>
    /\ ret' = "0"
    /\ UNCHANGED <<lost, phase, pFactory, pRenderTarget, pBrush, scaleX, scaleY>>

\* HandleMessage, case WM_LBUTTONUP
HandleMessage_WM_LBUTTONUP ==
    /\ LET r == OnLButtonUp
       IN /\ captured' = r.captured
          /\ ellipse' = r.ellipse
          /\ ptMouse' = r.ptMouse
          /\ calls' = r.calls
    /\ last' = Msg("WM_LBUTTONUP", 0, 0, 0, NoHr, NoHr, NoHr)
    /\ drawn' = <<>>
    /\ ret' = "0"
    /\ UNCHANGED <<lost, phase, pFactory, pRenderTarget, pBrush, scaleX, scaleY, dirty>>

\* HandleMessage, case WM_MOUSEMOVE
HandleMessage_WM_MOUSEMOVE ==
    /\ \E px \in Pixels, py \in Pixels, flags \in Flags :
         LET r == OnMouseMove(px, py, flags)
         IN /\ ellipse' = r.ellipse
            /\ calls' = r.calls
            /\ dirty' = (dirty \/ r.calls # <<>>)
            /\ last' = Msg("WM_MOUSEMOVE", px, py, flags, NoHr, NoHr, NoHr)
    /\ drawn' = <<>>
    /\ ret' = "0"
    /\ UNCHANGED <<lost, phase, pFactory, pRenderTarget, pBrush, ptMouse, scaleX, scaleY, captured>>

\* MainWindow::OnPaint, the backend answering hrRT, hrBrush and hrEnd (EndDraw).
\* FillEllipse is handed pBrush as it is; with a NULL brush the backend either
\* faults inside the call (av) or records the error and reports it from EndDraw.
\* CreateGraphicsResources calls CreateHwndRenderTarget through pFactory as it
\* is; through a NULL pFactory the call faults, and the fault either ends the
\* process (av) or is swallowed by the host's callback dispatch, which abandons
\* the handler.
OnPaint(hrRT, hrBrush, hrEnd, av) ==
    IF ~pRenderTarget /\ ~pFactory
    THEN [rt |-> pRenderTarget, br |-> pBrush, crashed |-> av, faulted |-> TRUE,
          validated |-> FALSE, discarded |-> FALSE,
          hrRT |-> NoHr, hrBrush |-> NoHr, hrEnd |-> NoHr,
          calls |-> <<Call("GetClientRect", pRenderTarget, pBrush),
                      Call("CreateHwndRenderTarget", pRenderTarget, pBrush)>>,
          drawn |-> <<>>]
    ELSE
    LET cg == CreateGraphicsResources(pRenderTarget, pBrush, hrRT, hrBrush)
        draw == <<Call("BeginPaint", cg.rt, cg.br),
                  Call("BeginDraw", cg.rt, cg.br),
                  Call("Clear", cg.rt, cg.br),
                  Call("FillEllipse", cg.rt, cg.br)>>
        dg == DiscardGraphicsResources(cg.rt, cg.br)
    IN IF SUCCEEDED(cg.hr)
       THEN IF ~cg.br /\ av
            THEN [rt |-> cg.rt, br |-> cg.br, crashed |-> TRUE, faulted |-> TRUE, validated |-> TRUE, discarded |-> FALSE,
                  hrRT |-> cg.hrRT, hrBrush |-> cg.hrBrush, hrEnd |-> NoHr,
                  calls |-> cg.calls \o draw, drawn |-> <<ellipse>>]
            ELSE IF FAILED(hrEnd) \/ hrEnd = D2DERR_RECREATE_TARGET
                 THEN [rt |-> dg.rt, br |-> dg.br, crashed |-> FALSE, faulted |-> FALSE, validated |-> TRUE,
                       discarded |-> TRUE,
                       hrRT |-> cg.hrRT, hrBrush |-> cg.hrBrush, hrEnd |-> hrEnd,
                       calls |-> cg.calls \o draw \o <<Call("EndDraw", cg.rt, cg.br)>>
                                 \o dg.calls \o <<Call("EndPaint", dg.rt, dg.br)>>,
                       drawn |-> <<ellipse>>]
                 ELSE [rt |-> cg.rt, br |-> cg.br, crashed |-> FALSE, faulted |-> FALSE, validated |-> TRUE,
                       discarded |-> FALSE,
                       hrRT |-> cg.hrRT, hrBrush |-> cg.hrBrush, hrEnd |-> hrEnd,
                       calls |-> cg.calls \o draw \o <<Call("EndDraw", cg.rt, cg.br),
                                                        Call("EndPaint", cg.rt, cg.br)>>,
                       drawn |-> <<ellipse>>]
       ELSE [rt |-> cg.rt, br |-> cg.br, crashed |-> FALSE, faulted |-> FALSE, validated |-> FALSE,
             discarded |-> FALSE,
             hrRT |-> cg.hrRT, hrBrush |-> cg.hrBrush, hrEnd |-> NoHr,
             calls |-> cg.calls, drawn |-> <<>>]

\* Resize without the NULL test of the render target
Resize_NoTest ==
    [calls |-> <<Call("GetClientRect", pRenderTarget, pBrush),
                 Call("Resize", pRenderTarget, pBrush),
                 Call("InvalidateRect", pRenderTarget, pBrush)>>,
     dirty |-> TRUE]

\* MainWindow::Resize
Resize ==
    IF pRenderTarget
    THEN [calls |-> <<Call("GetClientRect", pRenderTarget, pBrush),
                      Call("Resize", pRenderTarget, pBrush),
                      Call("InvalidateRect", pRenderTarget, pBrush)>>,
          dirty |-> TRUE]
    ELSE [calls |-> <<>>, dirty |-> dirty]

\* what the backend may answer to a request: it answers only when asked
Answers(asked) == IF asked THEN HResults ELSE {NoHr}

\* HandleMessage, case WM_PAINT
HandleMessage_WM_PAINT ==
    /\ \E hrRT \in Answers(~pRenderTarget /\ pFactory) :
       \E hrBrush \in Answers(~pRenderTarget /\ SUCCEEDED(hrRT)) :
       LET cg == CreateGraphicsResources(pRenderTarget, pBrush, hrRT, hrBrush)
           nullDeref == (~pRenderTarget /\ ~pFactory) \/ (SUCCEEDED(cg.hr) /\ ~cg.br)
       IN
       \E hrEnd \in Answers(SUCCEEDED(cg.hr) /\ (pRenderTarget \/ pFactory)),
          av \in (IF nullDeref THEN BOOLEAN ELSE {FALSE}) :
         LET r == OnPaint(hrRT, hrBrush, hrEnd, av)
         IN /\ pRenderTarget' = r.rt
            /\ pBrush' = r.br
            /\ calls' = r.calls
            /\ drawn' = r.drawn
            /\ dirty' = (dirty /\ ~r.validated)
            /\ phase' = IF r.crashed THEN "crashed" ELSE phase
            /\ ret' = IF r.faulted THEN "none" ELSE "0"
            /\ last' = Msg("WM_PAINT", 0, 0, 0, r.hrRT, r.hrBrush, r.hrEnd)
            /\ lost' = (lost \/ r.discarded)
    /\ UNCHANGED <<pFactory, ellipse, ptMouse, scaleX, scaleY, captured>>

\* HandleMessage, case WM_SIZE
HandleMessage_WM_SIZE ==
    /\ LET r == Resize
       IN /\ calls' = r.calls
          /\ dirty' = r.dirty
    /\ last' = Msg("WM_SIZE", 0, 0, 0, NoHr, NoHr, NoHr)
    /\ drawn' = <<>>
    /\ ret' = "0"
    /\ UNCHANGED <<lost, phase, pFactory, pRenderTarget, pBrush, ellipse, ptMouse,
                   scaleX, scaleY, captured>>

\* HandleMessage, case WM_DESTROY (also sent to a window whose WM_CREATE returned -1)
HandleMessage_WM_DESTROY ==
    /\ LET dg == DiscardGraphicsResources(pRenderTarget, pBrush)
           rf == SafeRelease(pFactory, "Release(pFactory)", dg.rt, dg.br)
       IN /\ pRenderTarget' = dg.rt
          /\ pBrush' = dg.br
          /\ pFactory' = rf.p
          /\ calls' = dg.calls \o rf.calls \o <<Call("PostQuitMessage", dg.rt, dg.br)>>
    /\ phase' = IF phase = "createFailed" THEN "aborted" ELSE "destroyed"
    /\ last' = Msg("WM_DESTROY", 0, 0, 0, NoHr, NoHr, NoHr)
    /\ drawn' = <<>>
    /\ ret' = "0"
    /\ UNCHANGED <<lost, ellipse, ptMouse, scaleX, scaleY, captured, dirty>>

\* the key messages HandleMessage logs and passes on
KeyMessages == {"WM_SYSKEYDOWN", "WM_SYSCHAR", "WM_SYSKEYUP", "WM_KEYDOWN", "WM_KEYUP", "WM_CHAR"}

\* the key cases returning 0 after an InvalidateRect, as the mouse cases do
HandleMessage_WM_KEY_Invalidate ==
    /\ \E m \in KeyMessages :
         last' = Msg(m, 0, 0, 0, NoHr, NoHr, NoHr)
    /\ calls' = <<Call("OutputDebugString", pRenderTarget, pBrush),
                  Call("InvalidateRect", pRenderTarget, pBrush)>>
    /\ dirty' = TRUE
    /\ drawn' = <<>>
    /\ ret' = "0"
    /\ UNCHANGED <<lost, phase, pFactory, pRenderTarget, pBrush, ellipse, ptMouse,
                   scaleX, scaleY, captured>>

\* HandleMessage, the key cases: swprintf_s, OutputDebugString, then DefWindowProc
HandleMessage_WM_KEY ==
    /\ \E m \in KeyMessages :
         last' = Msg(m, 0, 0, 0, NoHr, NoHr, NoHr)
    /\ calls' = <<Call("OutputDebugString", pRenderTarget, pBrush),
                  Call("DefWindowProc", pRenderTarget, pBrush)>>
    /\ drawn' = <<>>
    /\ ret' = "DefWindowProc"
    /\ UNCHANGED <<lost, phase, pFactory, pRenderTarget, pBrush, ellipse, ptMouse,
                   scaleX, scaleY, captured, dirty>>

\* wWinMain: ShowWindow, once Create has returned a window
ShowWindow ==
    /\ phase = "created"
    /\ phase' = "running"
    /\ calls' = <<Call("ShowWindow", pRenderTarget, pBrush)>>
    /\ last' = Msg("ShowWindow", 0, 0, 0, NoHr, NoHr, NoHr)
    /\ drawn' = <<>>
    /\ ret' = "none"
    /\ UNCHANGED <<lost, pFactory, pRenderTarget, pBrush, ellipse, ptMouse,
                   scaleX, scaleY, captured, dirty>>

\* wWinMain: return 0, when Create failed or when the message loop has ended
Exit ==
    /\ phase \in {"createFailed", "aborted", "destroyed"}
    /\ phase' = "exited"
    /\ calls' = <<>>
    /\ last' = Msg("return", 0, 0, 0, NoHr, NoHr, NoHr)
    /\ drawn' = <<>>
    /\ ret' = "none"
    /\ UNCHANGED <<lost, pFactory, pRenderTarget, pBrush, ellipse, ptMouse,
                   scaleX, scaleY, captured, dirty>>

\* The notifications in the order the host delivers them: WM_CREATE first,
\* WM_SIZE from then on, input and paint once the window is shown, WM_DESTROY
\* last (also for a window whose WM_CREATE returned -1).
WM_CREATE == phase = "constructed" /\ HandleMessage_WM_CREATE
WM_LBUTTONDOWN == phase = "running" /\ HandleMessage_WM_LBUTTONDOWN
WM_LBUTTONUP == phase = "running" /\ HandleMessage_WM_LBUTTONUP
WM_MOUSEMOVE == phase = "running" /\ HandleMessage_WM_MOUSEMOVE
WM_DESTROY == phase \in {"running", "createFailed"} /\ HandleMessage_WM_DESTROY
WM_PAINT == phase = "running" /\ HandleMessage_WM_PAINT
WM_SIZE == phase \in {"created", "running"} /\ HandleMessage_WM_SIZE
WM_KEY == phase = "running" /\ HandleMessage_WM_KEY

Next ==
    \/ WM_CREATE
    \/ ShowWindow
    \/ WM_LBUTTONDOWN
    \/ WM_LBUTTONUP
    \/ WM_MOUSEMOVE
    \/ WM_DESTROY
    \/ WM_PAINT
    \/ WM_SIZE
    \/ WM_KEY
    \/ Exit

Spec == Init /\ [][Next]_vars

\* The window procedure taken alone: HandleMessage accepts WM_PAINT, WM_SIZE and
\* WM_DESTROY, the messages that use or release the factory and the resources,
\* at any time for as long as the process lives: before WM_CREATE, after a
\* failed WM_CREATE, before the window is shown and after WM_DESTROY.  The
\* input messages touch neither and stay in the host's order.
Alive == phase \notin {"crashed", "exited"}
Any_WM_DESTROY == Alive /\ HandleMessage_WM_DESTROY
Any_WM_PAINT == Alive /\ HandleMessage_WM_PAINT
Any_WM_SIZE == Alive /\ HandleMessage_WM_SIZE

NextAnyOrder ==
    \/ Next
    \/ Any_WM_DESTROY
    \/ Any_WM_PAINT
    \/ Any_WM_SIZE

SpecAnyOrder == Init /\ [][NextAnyOrder]_vars

\* ------------------------------------------------------------ properties

\* the names of the calls in a call sequence
Names(cs) == [i \in DOMAIN cs |-> cs[i].fn]
\* how many calls of a sequence have the name fn
Count(cs, fn) == Cardinality({i \in DOMAIN cs : cs[i].fn = fn})
\* the drawing calls issued on the render target
DrawCalls == {"BeginDraw", "Clear", "FillEllipse", "EndDraw"}
\* the creation requests
CreateCalls == {"CreateHwndRenderTarget", "CreateSolidColorBrush"}
\* the primary button is held in the key-state flags f
PrimaryHeld(f) == f \in {MK_LBUTTON, MK_LBUTTON + MK_RBUTTON}
\* the EndDraw results that are failures
EndFailures == {E_FAIL, D2DERR_RECREATE_TARGET}

\* C1: in every reachable state the render target (surface) and the brush
\* either both exist or are both absent.
C1_BothOrNeither == pRenderTarget <=> pBrush

\* C2: every drawing call of a paint is issued while both the render target
\* and the brush exist.
C2_DrawOnlyWithResources ==
    \A i \in DOMAIN calls :
        calls[i].fn \in DrawCalls => (calls[i].rt /\ calls[i].brush)

\* C3: the radii of the ellipse are never negative.
C3_RadiiNonNegative == ellipse.radiusX >= 0 /\ ellipse.radiusY >= 0

\* C4: a paint whose EndDraw reports a failure (device lost or any other)
\* ends with render target and brush both absent, returns 0 to the
\* dispatcher, leaves the program running and leaves ellipse and anchor as
\* they were.
C4_EndFrameFailureIsRecovered ==
    [][(last'.msg = "WM_PAINT" /\ last'.hrEnd \in EndFailures)
         => /\ ~pRenderTarget' /\ ~pBrush'
            /\ ret' = "0"
            /\ phase' = "running"
            /\ ellipse' = ellipse
            /\ ptMouse' = ptMouse]_vars

C4_Witness ==
    /\ last.msg = "WM_PAINT"
    /\ last.hrEnd = D2DERR_RECREATE_TARGET
    /\ last.hrRT = NoHr
    /\ ~pRenderTarget /\ ~pBrush
    /\ ellipse.radiusX # 0

\* C5: a paint whose EndDraw failed issues each creation request and each
\* drawing call at most once and nothing but the releases and EndPaint after
\* EndDraw; and a paint that starts with the resources absent (in particular
\* the first one after a failed paint) and to which the backend answers
\* success creates render target and brush, draws the current ellipse once,
\* and leaves both resources present.
C5_NextPaintRecreates ==
    [][last'.msg = "WM_PAINT"
         => /\ last'.hrEnd \in EndFailures
                 => /\ \A fn \in DrawCalls \cup CreateCalls : Count(calls', fn) <= 1
                    /\ \A i, j \in DOMAIN calls' :
                          (calls'[i].fn = "EndDraw" /\ j > i)
                             => calls'[j].fn \notin DrawCalls \cup CreateCalls
            /\ (/\ (~pRenderTarget /\ ~pBrush)
                     \/ (last.msg = "WM_PAINT" /\ last.hrEnd \in EndFailures)
                /\ last'.hrRT \in {S_OK, NoHr}
                /\ last'.hrBrush \in {S_OK, NoHr}
                /\ last'.hrEnd = S_OK)
                 => /\ pRenderTarget' /\ pBrush'
                    /\ Names(calls') = <<"GetClientRect", "CreateHwndRenderTarget",
                                         "CreateSolidColorBrush", "BeginPaint", "BeginDraw",
                                         "Clear", "FillEllipse", "EndDraw", "EndPaint">>
                    /\ drawn' = <<ellipse>>]_vars

C5_Witness ==
    /\ lost
    /\ last.msg = "WM_PAINT"
    /\ last.hrRT = S_OK /\ last.hrBrush = S_OK /\ last.hrEnd = S_OK
    /\ pRenderTarget /\ pBrush
    /\ drawn = <<ellipse>>
    /\ ellipse.radiusX # 0

\* C6: after a release and after a destroy the window does not hold the
\* mouse capture.
C6_NoCaptureAfterExit ==
    last.msg \in {"WM_LBUTTONUP", "WM_DESTROY"} => ~captured

\* C7 as stated: the release does not change the ellipse, and the first
\* notification after a release, unless it is a press, does not change it
\* either, whatever the button state of a move.
C7_ShapeFrozenUntilPress ==
    [][/\ last'.msg = "WM_LBUTTONUP" => ellipse' = ellipse
       /\ (last.msg = "WM_LBUTTONUP" /\ last'.msg # "WM_LBUTTONDOWN")
             => ellipse' = ellipse]_vars

\* C7 amended: the release does not change the ellipse, and no notification
\* other than a press or a move with the primary button held changes it, so
\* after a release it stays as it is until the next of these two.
C7_ShapeFrozenUntilPressOrDrag ==
    [][/\ last'.msg = "WM_LBUTTONUP" => ellipse' = ellipse
       /\ ~(\/ last'.msg = "WM_LBUTTONDOWN"
            \/ last'.msg = "WM_MOUSEMOVE" /\ PrimaryHeld(last'.flags))
             => ellipse' = ellipse]_vars

C7_Witness ==
    /\ last.msg = "WM_LBUTTONUP"
    /\ ~captured
    /\ ellipse.radiusX # 0
    /\ ellipse.radiusX # 1 * Unit

\* C8: a move without the primary button held changes neither the ellipse,
\* the anchor, the capture, the resources nor the pending update region, and
\* issues no call (no repaint request).
C8_MoveWithoutButtonIsNoOp ==
    [][(last'.msg = "WM_MOUSEMOVE" /\ ~PrimaryHeld(last'.flags))
         => /\ UNCHANGED <<ellipse, ptMouse, captured, pRenderTarget, pBrush, dirty>>
            /\ Count(calls', "InvalidateRect") = 0]_vars

C8_Witness ==
    /\ last.msg = "WM_MOUSEMOVE"
    /\ last.flags = MK_RBUTTON
    /\ captured
    /\ pRenderTarget /\ pBrush
    /\ ~dirty
    /\ ellipse.radiusX = 1 * Unit
    /\ last.x * Unit # ptMouse.x * scaleX

\* C9: a press at pixel (px, py) sets anchor and centre to (px / scaleX,
\* py / scaleY), both radii to 1, takes the capture and requests a repaint;
\* a release right after it leaves that ellipse.
C9_PressResetsShape ==
    [][/\ last'.msg = "WM_LBUTTONDOWN"
            => /\ ptMouse'.x * scaleX = last'.x * Unit
               /\ ptMouse'.y * scaleY = last'.y * Unit
               /\ ellipse'.x = ptMouse'.x
               /\ ellipse'.y = ptMouse'.y
               /\ ellipse'.radiusX = 1 * Unit
               /\ ellipse'.radiusY = 1 * Unit
               /\ captured'
               /\ dirty'
               /\ Count(calls', "InvalidateRect") = 1
       /\ (last.msg = "WM_LBUTTONDOWN" /\ last'.msg = "WM_LBUTTONUP")
            => /\ ellipse'.x * scaleX = last.x * Unit
               /\ ellipse'.y * scaleY = last.y * Unit
               /\ ellipse'.radiusX = 1 * Unit
               /\ ellipse'.radiusY = 1 * Unit]_vars

C9_Witness ==
    /\ last.msg = "WM_LBUTTONUP"
    /\ scaleX = 2
    /\ ellipse = Ellipse(Point2F(Unit \div 2, 0), 1 * Unit, 1 * Unit)
    /\ ptMouse = Point2F(Unit \div 2, 0)
    /\ lost

\* C10: a move to P with the primary button held puts the centre at the
\* midpoint of the anchor A and P on each axis and leaves the anchor A;
\* when P is right of and below A the radii are the half-deltas.
C10_CentreIsMidpoint ==
    [][(last'.msg = "WM_MOUSEMOVE" /\ PrimaryHeld(last'.flags))
         => /\ 2 * ellipse'.x * scaleX = ptMouse.x * scaleX + last'.x * Unit
            /\ 2 * ellipse'.y * scaleY = ptMouse.y * scaleY + last'.y * Unit
            /\ ptMouse' = ptMouse
            /\ (last'.x * Unit >= ptMouse.x * scaleX
                  => 2 * ellipse'.radiusX * scaleX = last'.x * Unit - ptMouse.x * scaleX)
            /\ (last'.y * Unit >= ptMouse.y * scaleY
                  => 2 * ellipse'.radiusY * scaleY = last'.y * Unit - ptMouse.y * scaleY)]_vars

C10_Witness ==
    /\ last.msg = "WM_MOUSEMOVE"
    /\ last.flags = MK_LBUTTON
    /\ last.x = 1 /\ last.y = 1
    /\ scaleX = 1
    /\ captured
    /\ ptMouse = Point2F(0, 0)
    /\ ellipse = Ellipse(Point2F(Unit \div 2, Unit \div 2), Unit \div 2, Unit \div 2)
\* the program state: everything but the record of the last handler run
state == <<phase, pFactory, pRenderTarget, pBrush, ellipse, ptMouse, scaleX, scaleY,
           captured, dirty>>

\* C11: a failed factory creation at WM_CREATE makes the handler return -1,
\* leaves the DPI scale uninitialised and the window never shown or painted;
\* and no failure of a resource creation is absorbed by a paint after which
\* the window carries on.
C11_CreationFailureAbortsWindow ==
    /\ phase \in {"createFailed", "aborted"}
         => /\ ~pFactory
            /\ scaleX = 1 /\ scaleY = 1
            /\ last.msg \in {"WM_CREATE", "WM_DESTROY"}
            /\ last.msg = "WM_CREATE" => ret = "-1"
    /\ (last.msg = "WM_PAINT" /\ (last.hrRT \in EndFailures \/ last.hrBrush \in EndFailures))
         => phase # "running"

\* C12: DiscardGraphicsResources leaves render target and brush absent,
\* releases each of them only if it was set (so nothing when both are absent,
\* and nothing twice), and applied to its own result it issues no call and
\* changes nothing.
C12_DiscardIsIdempotent ==
    [][/\ LET d1 == DiscardGraphicsResources(pRenderTarget, pBrush)
              d2 == DiscardGraphicsResources(d1.rt, d1.br)
          IN /\ ~d1.rt /\ ~d1.br
             /\ d2.calls = <<>>
             /\ d2.rt = d1.rt /\ d2.br = d1.br
       /\ last'.msg = "WM_DESTROY"
            => /\ ~pRenderTarget' /\ ~pBrush'
               /\ Count(calls', "Release(pRenderTarget)") = (IF pRenderTarget THEN 1 ELSE 0)
               /\ Count(calls', "Release(pBrush)") = (IF pBrush THEN 1 ELSE 0)
       /\ (last'.msg = "WM_PAINT" /\ last'.hrEnd \in EndFailures)
            => /\ ~pRenderTarget' /\ ~pBrush'
               /\ Count(calls', "Release(pRenderTarget)") = 1
               /\ Count(calls', "Release(pBrush)") <= 1
               /\ \A i \in DOMAIN calls' :
                     calls'[i].fn = "Release(pBrush)" => calls'[i].brush]_vars

C12_Witness ==
    /\ last.msg = "WM_DESTROY"
    /\ lost
    /\ Count(calls, "Release(pRenderTarget)") = 0
    /\ Count(calls, "Release(pBrush)") = 0
    /\ Count(calls, "Release(pFactory)") = 1
    /\ ~pRenderTarget /\ ~pBrush

\* C13: a WM_SIZE received with render target and brush absent issues no call
\* and changes no program state; received with both present it issues one
\* Resize on the render target and one InvalidateRect, no creation request,
\* and leaves ellipse, anchor and both resources as they were.
C13_ResizeOnlyWithResources ==
    [][last'.msg = "WM_SIZE"
         => /\ (~pRenderTarget /\ ~pBrush)
                 => /\ calls' = <<>>
                    /\ UNCHANGED state
            /\ (pRenderTarget /\ pBrush)
                 => /\ Names(calls') = <<"GetClientRect", "Resize", "InvalidateRect">>
                    /\ dirty'
                    /\ UNCHANGED <<ellipse, ptMouse, pRenderTarget, pBrush>>]_vars

C13_Witness ==
    /\ last.msg = "WM_SIZE"
    /\ pRenderTarget /\ pBrush
    /\ Count(calls, "Resize") = 1
    /\ dirty
    /\ lost
    /\ ellipse.radiusX # 0

\* C14: a key message is logged and handed to DefWindowProc: it changes no
\* program state and requests no repaint.
C14_KeysChangeNothing ==
    [][last'.msg \in KeyMessages
         => /\ UNCHANGED state
            /\ Names(calls') = <<"OutputDebugString", "DefWindowProc">>
            /\ ret' = "DefWindowProc"]_vars

C14_Witness ==
    /\ last.msg = "WM_SYSKEYDOWN"
    /\ ret = "DefWindowProc"
    /\ captured
    /\ ~dirty
    /\ pRenderTarget /\ pBrush
    /\ ellipse.radiusX # 0
\* the calls OnPaint issues once CreateGraphicsResources has succeeded
PaintCalls == {"BeginPaint", "BeginDraw", "Clear", "FillEllipse", "EndDraw", "EndPaint"}
IsPaintCall(n) == n \in PaintCalls

\* C15: a paint gets Ready from CreateGraphicsResources without any creation
\* request exactly when render target and brush both existed on entry, and
\* creation requests are issued only when both were absent.
C15_CreatesExactlyWhenAbsent ==
    (last.msg = "WM_PAINT" /\ calls # <<>>)
      => LET hadRT == calls[1].rt
             hadBrush == calls[1].brush
             created == Count(calls, "CreateHwndRenderTarget")
                          + Count(calls, "CreateSolidColorBrush") > 0
             ready == Count(calls, "BeginPaint") = 1
         IN /\ (ready /\ ~created) <=> (hadRT /\ hadBrush)
            /\ created => (~hadRT /\ ~hadBrush)

C17_ShapeChangeRequestsRepaint ==
    [][/\ ellipse' # ellipse
            => Count(calls', "InvalidateRect") = 1 /\ dirty'
       /\ (\/ last'.msg = "WM_LBUTTONDOWN"
           \/ last'.msg = "WM_MOUSEMOVE" /\ PrimaryHeld(last'.flags))
            => Count(calls', "InvalidateRect") = 1 /\ dirty'
       /\ last'.msg = "WM_LBUTTONUP"
            => Count(calls', "InvalidateRect") = 0 /\ dirty' = dirty]_vars

C17_Witness ==
    /\ last.msg = "WM_MOUSEMOVE"
    /\ last.flags = MK_LBUTTON
    /\ Count(calls, "InvalidateRect") = 1
    /\ dirty
    /\ pRenderTarget /\ pBrush
    /\ ellipse.radiusX < 0

\* C18: only the press writes the anchor, only the press and the move with
\* the primary button held write the ellipse; paint (whatever the backend
\* answers), resize, release and destroy leave both as they were.
C18_OnlyPressAndDragWriteShape ==
    [][/\ ptMouse' # ptMouse => last'.msg = "WM_LBUTTONDOWN"
       /\ ellipse' # ellipse
            => \/ last'.msg = "WM_LBUTTONDOWN"
               \/ last'.msg = "WM_MOUSEMOVE" /\ PrimaryHeld(last'.flags)
       /\ last'.msg \in {"WM_PAINT", "WM_SIZE", "WM_LBUTTONUP", "WM_DESTROY"}
            => UNCHANGED <<ellipse, ptMouse>>]_vars

C18_Witness ==
    /\ last.msg = "WM_PAINT"
    /\ last.hrEnd = E_FAIL
    /\ ~pRenderTarget /\ ~pBrush
    /\ Count(calls, "Release(pBrush)") = 1
    /\ ptMouse.x # 0
    /\ ellipse.radiusX # 0
    /\ ellipse.x # ptMouse.x

\* C19 as stated: whatever the order of the messages, CreateHwndRenderTarget is
\* requested only while the factory exists.
C19_CreateOnlyWithFactory ==
    \A i \in DOMAIN calls : calls[i].fn = "CreateHwndRenderTarget" => pFactory

\* C19 amended: a paint delivered between a successful WM_CREATE and
\* WM_DESTROY requests CreateHwndRenderTarget only while the factory exists;
\* a paint delivered with neither a render target nor a factory (before a
\* successful WM_CREATE or after WM_DESTROY) makes the request through the
\* NULL factory pointer and draws nothing.
C19_CreateWithFactoryInHostOrder ==
    [][last'.msg = "WM_PAINT"
         => /\ (phase \in {"created", "running"}
                  /\ Count(calls', "CreateHwndRenderTarget") > 0) => pFactory
            /\ (~pRenderTarget /\ ~pFactory)
                 => /\ Names(calls') = <<"GetClientRect", "CreateHwndRenderTarget">>
                    /\ ret' = "none"
                    /\ drawn' = <<>>]_vars

C19_Witness ==
    /\ last.msg = "WM_PAINT"
    /\ phase = "created"
    /\ pFactory
    /\ Count(calls, "CreateHwndRenderTarget") = 1
    /\ pRenderTarget /\ pBrush
====
